---- MODULE Spec2Model ----
(***************************************************************************)
(* State-machine model of src/app/components/FlyingHorseGame.tsx: the      *)
(* world (four horsemen, six orbs, twelve clouds), the keyboard handlers,  *)
(* the frame loop effect with its requestAnimationFrame chain, and the     *)
(* calls of one frame (updateClouds, updateHorsemen, updateOrbs and the    *)
(* drawing calls, of which the order and what they read is kept).          *)
(*                                                                         *)
(* JavaScript numbers are modelled in fixed point: positions in 1/PosScale *)
(* of a canvas unit, velocities, tilts, pulses and sines in 1/FracScale.   *)
(* Products are truncated toward zero.  Times are whole milliseconds.      *)
(***************************************************************************)
EXTENDS Integers, Sequences, FiniteSets, TLC

\* ------------------------------------------------------------------------
\* Number representation
\* ------------------------------------------------------------------------
PosScale == 10
FracScale == 1000

TruncDiv(a, d) == IF a >= 0 THEN a \div d ELSE -((-a) \div d)

Abs(a) == IF a < 0 THEN -a ELSE a

Min2(a, b) == IF a < b THEN a ELSE b

Max2(a, b) == IF a > b THEN a ELSE b

\* NaN, as produced by Number() on a non-numeric string.  Encoded as an
\* integer no array index and no Number(key) - 1 of an accepted key equals.
NaN == -1

\* ------------------------------------------------------------------------
\* Program constants (lines 39-44), in model units
\* ------------------------------------------------------------------------
CANVAS_WIDTH == 960 * PosScale
CANVAS_HEIGHT == 560 * PosScale
HORSEMAN_ACCEL == (24 * FracScale) \div 100
HORSEMAN_FRICTION == (985 * FracScale) \div 1000
HORSEMAN_MAX_SPEED == (74 * FracScale) \div 10
ORB_RESPAWN_TIME == 12000

\* the sentinel coordinate of a collected orb (lines 331-332, 341)
SENTINEL == -999 * PosScale
\* pickup radius (line 329)
PICKUP_RADIUS == 42 * PosScale
\* reference frame length in ms (lines 290, 312)
FRAME_MS == 16

NumHorsemen == 4
NumOrbs == 6
NumClouds == 12
HorseIdx == 0 .. (NumHorsemen - 1)
OrbIdx == 0 .. (NumOrbs - 1)
CloudIdx == 0 .. (NumClouds - 1)

\* ------------------------------------------------------------------------
\* Bounds of the exploration
\* ------------------------------------------------------------------------
MaxTicks == 3
MaxKeyEvents == 2
LongTicks == 60
ScenarioTicks == 100
SwitchTick == 20

\* ------------------------------------------------------------------------
\* Vector math (lines 46-58)
\* ------------------------------------------------------------------------
clamp(value, min, max) == Min2(Max2(value, min), max)

RECURSIVE IsqrtIn(_, _, _)
\* largest r in lo..hi with r*r <= n  (lo*lo <= n is given)
IsqrtIn(n, lo, hi) ==
    IF lo >= hi THEN lo
    ELSE LET mid == (lo + hi + 1) \div 2
         IN IF mid * mid <= n THEN IsqrtIn(n, mid, hi)
                              ELSE IsqrtIn(n, lo, mid - 1)

\* Math.hypot on fixed-point coordinates, rounded down to the unit
hypot(dx, dy) == IsqrtIn(dx * dx + dy * dy, 0, Abs(dx) + Abs(dy))

distance(a, b) == hypot(a.x - b.x, a.y - b.y)

\* Math.random() yields u / RandomSteps for a draw u in 0 .. RandomSteps-1
RandomSteps == 20

randomRange(u, min, max) == TruncDiv(u * (max - min), RandomSteps) + min

\* Math.sin of an angle given in 1/100 rad, result in 1/FracScale
\* (Bhaskara's rational approximation on each half period)
PI100 == 314

HalfSine(x) ==
    LET p == x * (PI100 - x)
    IN (16 * p * FracScale) \div (5 * PI100 * PI100 - 4 * p)

sin(angle100) ==
    LET a == angle100 % (2 * PI100)
    IN IF a <= PI100 THEN HalfSine(a) ELSE -HalfSine(a - PI100)

\* ------------------------------------------------------------------------
\* Key identifiers (KeyboardEvent.key) and the string operations of the
\* handlers (lines 145-160)
\* ------------------------------------------------------------------------
\* the strings the model knows, with their UTF-16 code units
KnownStrings ==
    {"ArrowUp", "ArrowDown", "ArrowLeft", "ArrowRight", "Shift", " ",
     "1", "2", "3", "4", "12",
     "arrowup", "arrowdown", "arrowleft", "arrowright", "shift"}

CodeUnits(s) ==
    IF s = "ArrowUp" THEN <<65, 114, 114, 111, 119, 85, 112>>
    ELSE IF s = "ArrowDown" THEN <<65, 114, 114, 111, 119, 68, 111, 119, 110>>
    ELSE IF s = "ArrowLeft" THEN <<65, 114, 114, 111, 119, 76, 101, 102, 116>>
    ELSE IF s = "ArrowRight" THEN <<65, 114, 114, 111, 119, 82, 105, 103, 104, 116>>
    ELSE IF s = "Shift" THEN <<83, 104, 105, 102, 116>>
    ELSE IF s = " " THEN <<32>>
    ELSE IF s = "1" THEN <<49>>
    ELSE IF s = "2" THEN <<50>>
    ELSE IF s = "3" THEN <<51>>
    ELSE IF s = "4" THEN <<52>>
    ELSE IF s = "12" THEN <<49, 50>>
    ELSE IF s = "arrowup" THEN <<97, 114, 114, 111, 119, 117, 112>>
    ELSE IF s = "arrowdown" THEN <<97, 114, 114, 111, 119, 100, 111, 119, 110>>
    ELSE IF s = "arrowleft" THEN <<97, 114, 114, 111, 119, 108, 101, 102, 116>>
    ELSE IF s = "arrowright" THEN <<97, 114, 114, 111, 119, 114, 105, 103, 104, 116>>
    ELSE IF s = "shift" THEN <<115, 104, 105, 102, 116>>
    ELSE << >>

FromCodeUnits(u) == CHOOSE s \in KnownStrings : CodeUnits(s) = u

\* String.prototype.toLowerCase: A-Z become a-z, the rest is kept
toLowerCase(s) ==
    LET u == CodeUnits(s)
    IN FromCodeUnits([i \in 1 .. Len(u) |->
                         IF u[i] >= 65 /\ u[i] <= 90 THEN u[i] + 32 ELSE u[i]])

RECURSIVE UnitsLE(_, _)
\* a <= b on strings: lexicographic order of the code units
UnitsLE(a, b) ==
    IF a = << >> THEN TRUE
    ELSE IF b = << >> THEN FALSE
    ELSE IF a[1] < b[1] THEN TRUE
    ELSE IF a[1] > b[1] THEN FALSE
    ELSE UnitsLE(Tail(a), Tail(b))

StrLE(a, b) == UnitsLE(CodeUnits(a), CodeUnits(b))

RECURSIVE DecimalValue(_)
DecimalValue(u) ==
    IF u = << >> THEN 0
    ELSE 10 * DecimalValue(SubSeq(u, 1, Len(u) - 1)) + (u[Len(u)] - 48)

\* Number(string): the decimal value of a string of digits, 0 for a blank
\* string, NaN for anything else the model's keys can spell
Number(s) ==
    LET u == CodeUnits(s)
    IN IF \A i \in 1 .. Len(u) : u[i] = 32 THEN 0
       ELSE IF \A i \in 1 .. Len(u) : u[i] >= 48 /\ u[i] <= 57 THEN DecimalValue(u)
       ELSE NaN

\* the test of line 148 and the index of line 149
IsSelectKey(key) == StrLE("1", key) /\ StrLE(key, "4")

SelectIndex(key) == IF Number(key) = NaN THEN NaN ELSE Number(key) - 1

\* the keys the exploration presses and releases
KeyInputs == {"ArrowRight", "Shift", "3", "12"}

\* ------------------------------------------------------------------------
\* updateHorsemen (lines 253-307)
\* ------------------------------------------------------------------------
Held(keys, k) == k \in keys

\* horizontalOf with the two arrow keys exchanged
horizontalOf_Swapped(keys) ==
    (IF Held(keys, "arrowleft") THEN 1 ELSE 0) - (IF Held(keys, "arrowright") THEN 1 ELSE 0)

horizontalOf(keys) ==
    (IF Held(keys, "arrowright") THEN 1 ELSE 0) - (IF Held(keys, "arrowleft") THEN 1 ELSE 0)

verticalOf(keys) ==
    (IF Held(keys, "arrowdown") THEN 1 ELSE 0) - (IF Held(keys, "arrowup") THEN 1 ELSE 0)

\* boost is 1.4 or 1; the acceleration is HORSEMAN_ACCEL * boost
accelerationOf(keys) ==
    IF Held(keys, " ") \/ Held(keys, "shift")
    THEN TruncDiv(HORSEMAN_ACCEL * 14, 10)
    ELSE HORSEMAN_ACCEL

TILT_MAX == (45 * FracScale) \div 100

\* SteerActive without the clamp of line 266
SteerActive_NoTiltClamp(h, keys) ==
    LET horizontal == horizontalOf(keys)
        vertical == verticalOf(keys)
        acceleration == accelerationOf(keys)
    IN [h EXCEPT
          !.vx = h.vx + horizontal * acceleration,
          !.vy = h.vy + vertical * acceleration,
          !.targetTilt =
              IF horizontal # 0 \/ vertical # 0
              THEN h.targetTilt + horizontal * ((6 * FracScale) \div 100)
              ELSE TruncDiv(h.targetTilt * 88, 100)]

\* lines 261-270: the held keys act on the controlled horseman
SteerActive(h, keys) ==
    LET horizontal == horizontalOf(keys)
        vertical == verticalOf(keys)
        acceleration == accelerationOf(keys)
    IN [h EXCEPT
          !.vx = h.vx + horizontal * acceleration,
          !.vy = h.vy + vertical * acceleration,
          !.targetTilt =
              IF horizontal # 0 \/ vertical # 0
              THEN clamp(h.targetTilt + horizontal * ((6 * FracScale) \div 100),
                         -TILT_MAX, TILT_MAX)
              ELSE TruncDiv(h.targetTilt * 88, 100)]

\* line 282: Math.sin(performance.now() / 800 + index * 1.3)
wanderOf(perfNow, index) == sin(TruncDiv(perfNow, 8) + index * 130)

\* Flock with the wander added to both components of the velocity
Flock_WanderBothAxes(h, active, index, perfNow) ==
    LET dx == active.x - h.x
        dy == active.y - h.y
        wander == wanderOf(perfNow, index)
    IN [h EXCEPT
          !.vx = h.vx + TruncDiv(dx * 6 * FracScale, 10000 * PosScale)
                      + TruncDiv(wander * 3, 100),
          !.vy = h.vy + TruncDiv(dy * 6 * FracScale, 10000 * PosScale)
                      + TruncDiv(wander * 3, 100),
          !.targetTilt = clamp(TruncDiv(wander * 4, 10), -TILT_MAX, TILT_MAX)]

\* lines 275-285: flocking toward the controlled horseman and wander
Flock(h, active, index, perfNow) ==
    LET dx == active.x - h.x
        dy == active.y - h.y
        wander == wanderOf(perfNow, index)
    IN [h EXCEPT
          !.vx = h.vx + TruncDiv(dx * 6 * FracScale, 10000 * PosScale)
                      + TruncDiv(wander * 3, 100),
          !.vy = h.vy + TruncDiv(dy * 6 * FracScale, 10000 * PosScale),
          !.targetTilt = clamp(TruncDiv(wander * 4, 10), -TILT_MAX, TILT_MAX)]

\* ClampVelocity without the clamps of lines 287-288
ClampVelocity_None(h) == h

\* lines 287-288
ClampVelocity(h) ==
    [h EXCEPT !.vx = clamp(h.vx, -HORSEMAN_MAX_SPEED, HORSEMAN_MAX_SPEED),
              !.vy = clamp(h.vy, -HORSEMAN_MAX_SPEED, HORSEMAN_MAX_SPEED)]

\* velocity * (delta / 16), as a displacement in position units
Displacement(v, delta) == TruncDiv(v * delta * PosScale, FRAME_MS * FracScale)

\* lines 290-294: integration, then friction
Integrate(h, delta) ==
    [h EXCEPT !.x = h.x + Displacement(h.vx, delta),
              !.y = h.y + Displacement(h.vy, delta),
              !.vx = TruncDiv(h.vx * HORSEMAN_FRICTION, FracScale),
              !.vy = TruncDiv(h.vy * HORSEMAN_FRICTION, FracScale)]

MIN_X == 40 * PosScale
MAX_X == CANVAS_WIDTH - 40 * PosScale
MIN_Y == 50 * PosScale
MAX_Y == CANVAS_HEIGHT - 100 * PosScale

\* BounceX with the clamp of line 298 left out
BounceX_NoClamp(h) ==
    IF h.x < MIN_X \/ h.x > MAX_X
    THEN [h EXCEPT !.vx = TruncDiv(h.vx * (-7), 10)]
    ELSE h

\* lines 296-299
BounceX(h) ==
    IF h.x < MIN_X \/ h.x > MAX_X
    THEN [h EXCEPT !.vx = TruncDiv(h.vx * (-7), 10), !.x = clamp(h.x, MIN_X, MAX_X)]
    ELSE h

\* lines 300-303
BounceY(h) ==
    IF h.y < MIN_Y \/ h.y > MAX_Y
    THEN [h EXCEPT !.vy = TruncDiv(h.vy * (-7), 10), !.y = clamp(h.y, MIN_Y, MAX_Y)]
    ELSE h

\* line 305
EaseTilt(h) == [h EXCEPT !.tilt = h.tilt + TruncDiv((h.targetTilt - h.tilt) * 18, 100)]

\* the body of the forEach callback (lines 272-306) for one horseman; the
\* controlled horseman is read from the array as it is at that moment
HorsemanStep(hs, index, activeHorseman, delta, perfNow) ==
    LET h0 == hs[index]
        h1 == IF index # activeHorseman
              THEN Flock(h0, hs[activeHorseman], index, perfNow)
              ELSE h0
    IN EaseTilt(BounceY(BounceX(Integrate(ClampVelocity(h1), delta))))

RECURSIVE ForEachHorseman(_, _, _, _, _)
ForEachHorseman(hs, index, activeHorseman, delta, perfNow) ==
    IF index >= NumHorsemen THEN hs
    ELSE ForEachHorseman(
             [hs EXCEPT ![index] = HorsemanStep(hs, index, activeHorseman, delta, perfNow)],
             index + 1, activeHorseman, delta, perfNow)

\* currentHorsemen[activeHorseman] is undefined for an index outside the
\* array; the forEach then reads active.position of undefined and throws
\* a TypeError at its first horseman, before any horseman is changed
updateHorsemenThrows(activeHorseman) == activeHorseman \notin HorseIdx

updateHorsemen(hs, delta, keys, activeHorseman, perfNow) ==
    IF updateHorsemenThrows(activeHorseman) THEN hs
    ELSE ForEachHorseman(
             [hs EXCEPT ![activeHorseman] = SteerActive(hs[activeHorseman], keys)],
             0, activeHorseman, delta, perfNow)

\* ------------------------------------------------------------------------
\* updateOrbs (lines 309-354)
\* ------------------------------------------------------------------------
PULSE_STEP == FracScale \div 100
PULSE_MIN == (5 * FracScale) \div 10
PULSE_MAX == (12 * FracScale) \div 10
ORB_MIN == 50 * PosScale
ORB_MAX_X == CANVAS_WIDTH - 50 * PosScale
ORB_MAX_Y == CANVAS_HEIGHT - 50 * PosScale

\* lines 312-324: motion, pulse, edge reflection of one orb
MoveOrb(orb, delta) ==
    LET x == orb.x + Displacement(orb.vx, delta)
        y == orb.y + Displacement(orb.vy, delta)
        pulse == orb.pulse + orb.pulseDir * PULSE_STEP
    IN [x |-> x,
        y |-> y,
        vx |-> IF x < ORB_MIN \/ x > ORB_MAX_X THEN -orb.vx ELSE orb.vx,
        vy |-> IF y < ORB_MIN \/ y > ORB_MAX_Y THEN -orb.vy ELSE orb.vy,
        pulse |-> pulse,
        pulseDir |-> IF pulse < PULSE_MIN \/ pulse > PULSE_MAX
                     THEN -orb.pulseDir ELSE orb.pulseDir]

MoveOrbs(orbs, delta) == [i \in OrbIdx |-> MoveOrb(orbs[i], delta)]

\* line 329; a distance below the radius needs both coordinate differences
\* below it, so the square root is taken for near pairs only
InPickupRange(horseman, orb) ==
    /\ Abs(horseman.x - orb.x) < PICKUP_RADIUS
    /\ Abs(horseman.y - orb.y) < PICKUP_RADIUS
    /\ distance(horseman, orb) < PICKUP_RADIUS

\* CollectOrb without the move to the sentinel of lines 331-332
CollectOrb_InPlace(orb) == [orb EXCEPT !.vx = 0, !.vy = 0]

\* CollectOrb without the zeroing of the velocity of lines 333-334
CollectOrb_KeepVelocity(orb) == [orb EXCEPT !.x = SENTINEL, !.y = SENTINEL]

\* lines 330-334: the orb goes to the sentinel with zero velocity
CollectOrb(orb) == [orb EXCEPT !.x = SENTINEL, !.y = SENTINEL, !.vx = 0, !.vy = 0]

\* lines 327-337: the nested forEach, horsemen outside, orbs inside;
\* w is the pair [horsemen, orbs] as mutated so far, with the number of
\* times each orb has given a point (credits, kept for the properties)
RECURSIVE PickupLoop(_, _, _)
PickupLoop(w, hi, oi) ==
    IF hi >= NumHorsemen THEN w
    ELSE IF oi >= NumOrbs THEN PickupLoop(w, hi + 1, 0)
    ELSE IF InPickupRange(w.horsemen[hi], w.orbs[oi])
         THEN PickupLoop([horsemen |-> [w.horsemen EXCEPT ![hi].score = @ + 1],
                          orbs |-> [w.orbs EXCEPT ![oi] = CollectOrb(@)],
                          credits |-> [w.credits EXCEPT ![oi] = @ + 1]],
                         hi, oi + 1)
         ELSE PickupLoop(w, hi, oi + 1)

\* Pickup that counts the points of this frame only
Pickup_FreshScores(hs, os) ==
    PickupLoop([horsemen |-> [i \in HorseIdx |-> [hs[i] EXCEPT !.score = 0]],
                orbs |-> os, credits |-> [i \in OrbIdx |-> 0]], 0, 0)

Pickup(hs, os) ==
    PickupLoop([horsemen |-> hs, orbs |-> os, credits |-> [i \in OrbIdx |-> 0]], 0, 0)

\* line 341: the test the code uses for "collected"
IsCollected(orb) == orb.x = SENTINEL

\* line 339
RespawnDue(orbTimer) == orbTimer > ORB_RESPAWN_TIME

\* lines 342-349: a collected orb gets four fresh draws of Math.random()
RespawnOrb(orb, d) ==
    [orb EXCEPT
       !.x = randomRange(d[1], 80 * PosScale, CANVAS_WIDTH - 80 * PosScale),
       !.y = randomRange(d[2], 80 * PosScale, CANVAS_HEIGHT - 160 * PosScale),
       !.vx = randomRange(d[3], -((5 * FracScale) \div 10), (5 * FracScale) \div 10),
       !.vy = randomRange(d[4], -((4 * FracScale) \div 10), (4 * FracScale) \div 10)]

\* lines 340-351: the sweep; draws[i] are the four draws orb i consumes if
\* it is collected
RespawnSweep(orbs, draws) ==
    [i \in OrbIdx |-> IF IsCollected(orbs[i]) THEN RespawnOrb(orbs[i], draws[i]) ELSE orbs[i]]

\* ------------------------------------------------------------------------
\* The calls of one frame (lines 187-196)
\* ------------------------------------------------------------------------
\* A frame works on a record fs: the world as mutated so far (horsemen, orbs,
\* clouds), the closure's orbTimer, whether a call threw, the intermediate
\* values of updateOrbs, and the log of what the frame has done so far.  env
\* holds what the frame does not change: delta, the held keys, the captured
\* activeHorseman, the reading of performance.now(), the draws of
\* Math.random().
\* A log entry: op is "clear", "update" or "draw", what names the layer or
\* the part of the world, view is what a draw call reads from the world.
Entry(op, what, view) == [op |-> op, what |-> what, view |-> view]

\* line 187
clearRect(fs) == [fs EXCEPT !.log = Append(@, Entry("clear", "canvas", 0))]

\* lines 236-251: the sky gradient, then the five light bands
drawBackground(fs) ==
    [fs EXCEPT !.log = @ \o <<Entry("draw", "sky", 0), Entry("draw", "bands", 0)>>]

\* lines 213-217: drift of one cloud; d is the draw of Math.random() it
\* consumes if it wraps
DriftCloud(cloud, delta, d) ==
    LET x == cloud.x + Displacement(cloud.speed, delta)
    IN IF x - cloud.size > CANVAS_WIDTH
       THEN [cloud EXCEPT !.x = -cloud.size, !.y = randomRange(d, 0, CANVAS_HEIGHT)]
       ELSE [cloud EXCEPT !.x = x]

\* lines 212-233: the forEach of updateClouds; each cloud is moved and then
\* drawn (lines 219-232) before the next cloud is moved
RECURSIVE CloudLoop(_, _, _)
CloudLoop(fs, i, env) ==
    IF i >= NumClouds THEN fs
    ELSE CloudLoop([fs EXCEPT
                      !.clouds[i] = DriftCloud(@, env.delta, env.wraps[i]),
                      !.log = @ \o <<Entry("update", "cloud", i),
                                     Entry("draw", "cloud",
                                           [id |-> i,
                                            cloud |-> DriftCloud(fs.clouds[i], env.delta,
                                                                 env.wraps[i])])>>],
                   i + 1, env)

updateClouds(fs, env) == CloudLoop(fs, 0, env)

\* line 190: the call of updateHorsemen; when it throws, nothing of the
\* frame after it runs
CallUpdateHorsemen(fs, env) ==
    IF updateHorsemenThrows(env.active)
    THEN [fs EXCEPT !.threw = TRUE]
    ELSE [fs EXCEPT
            !.horsemen = updateHorsemen(@, env.delta, env.keys, env.active, env.perfNow),
            !.log = Append(@, Entry("update", "horsemen", 0))]

\* lines 191-193 and 309-354: updateOrbs with the onRespawn callback that
\* resets the closure's orbTimer
updateOrbs(fs, env) ==
    LET moved == MoveOrbs(fs.orbs, env.delta)
        w == Pickup(fs.horsemen, moved)
        sweep == RespawnDue(fs.orbTimer)
    IN [fs EXCEPT
          !.horsemen = w.horsemen,
          !.orbs = IF sweep THEN RespawnSweep(w.orbs, env.draws) ELSE w.orbs,
          !.orbTimer = IF sweep THEN 0 ELSE @,
          !.sweep = sweep,
          !.moved = moved,
          !.picked = w.orbs,
          !.credits = w.credits,
          !.log = Append(@, Entry("update", "orbs", 0))]

\* lines 356-417: what drawHorsemen reads: every horseman's position, tilt
\* and score, and the controlled index (the ring of the controlled one)
drawHorsemen(fs, env) ==
    [fs EXCEPT !.log = Append(@, Entry("draw", "horsemen",
                                       [horsemen |-> fs.horsemen, active |-> env.active]))]

\* DrawnOrbs without the early return of line 421
DrawnOrbs_All(orbs) == OrbIdx

\* lines 420-421: the orbs drawOrbs draws
DrawnOrbs(orbs) == {i \in OrbIdx : ~IsCollected(orbs[i])}

\* lines 419-438
drawOrbs(fs) ==
    [fs EXCEPT !.log = Append(@, Entry("draw", "orbs",
                                       [i \in DrawnOrbs(fs.orbs) |-> fs.orbs[i]]))]

\* lines 440-461: the HUD shows every score and marks the controlled index
drawUI(fs, env) ==
    [fs EXCEPT !.log = Append(@, Entry("draw", "hud",
                                       [scores |-> [i \in HorseIdx |-> fs.horsemen[i].score],
                                        active |-> env.active]))]

\* StepCalls with the horsemen drawn before updateOrbs has run
StepCalls_DrawHorsemenEarly ==
    <<"clearRect", "drawBackground", "updateClouds", "updateHorsemen",
      "drawHorsemen", "updateOrbs", "drawOrbs", "drawUI">>

\* lines 187-196: the calls of step, in order
StepCalls ==
    <<"clearRect", "drawBackground", "updateClouds", "updateHorsemen",
      "updateOrbs", "drawHorsemen", "drawOrbs", "drawUI">>

Call(name, fs, env) ==
    CASE name = "clearRect" -> clearRect(fs)
      [] name = "drawBackground" -> drawBackground(fs)
      [] name = "updateClouds" -> updateClouds(fs, env)
      [] name = "updateHorsemen" -> CallUpdateHorsemen(fs, env)
      [] name = "updateOrbs" -> updateOrbs(fs, env)
      [] name = "drawHorsemen" -> drawHorsemen(fs, env)
      [] name = "drawOrbs" -> drawOrbs(fs)
      [] name = "drawUI" -> drawUI(fs, env)

\* the calls from the k-th on, until one throws
RECURSIVE RunCalls(_, _, _, _)
RunCalls(calls, k, fs, env) ==
    IF k > Len(calls) \/ fs.threw THEN fs
    ELSE RunCalls(calls, k + 1, Call(calls[k], fs, env), env)

\* ------------------------------------------------------------------------
\* Inputs of the exploration: draws of Math.random(), frame timing
\* ------------------------------------------------------------------------
\* One tape per initial world: the draws of lines 112 (per horseman: vx, vy)
\* and 121-129 (per orb: x, y, vx, vy, pulse, pulseDir).
TapeA ==
    [horse |-> [i \in HorseIdx |-> <<0, 10>>],
     orb |-> [i \in OrbIdx |->
                IF i = 0 THEN <<0, 7, 10, 10, 0, 0>>
                ELSE IF i = 1 THEN <<8, 13, 10, 10, 10, 19>>
                ELSE IF i = 2 THEN <<8, 7, 10, 10, 19, 19>>
                ELSE IF i = 3 THEN <<19, 0, 19, 0, 5, 15>>
                ELSE IF i = 4 THEN <<13, 16, 0, 19, 12, 3>>
                ELSE <<18, 19, 10, 10, 7, 11>>]]

TapeB ==
    [horse |-> [i \in HorseIdx |->
                IF i = 0 THEN <<19, 19>>
                ELSE IF i = 1 THEN <<10, 10>>
                ELSE IF i = 2 THEN <<0, 0>>
                ELSE <<15, 5>>],
     orb |-> [i \in OrbIdx |->
                IF i = 0 THEN <<6, 7, 10, 10, 3, 12>>
                ELSE IF i = 1 THEN <<19, 13, 19, 10, 19, 2>>
                ELSE IF i = 2 THEN <<0, 0, 0, 0, 0, 0>>
                ELSE IF i = 3 THEN <<10, 19, 12, 19, 10, 10>>
                ELSE IF i = 4 THEN <<15, 4, 3, 17, 16, 18>>
                ELSE <<2, 18, 14, 6, 8, 1>>]]

InitTapes == {TapeA, TapeB}

\* the draws of lines 133-139 (per cloud: x, y, size, speed, opacity)
CloudTape ==
    [i \in CloudIdx |->
       <<(7 * i + 19) % RandomSteps, (3 * i + 5) % RandomSteps, (11 * i) % RandomSteps,
         (9 * i + 19) % RandomSteps, (13 * i + 4) % RandomSteps>>]

\* the draws the clouds that wrap in one frame may see (per cloud: y)
CloudWrapTapes == {[i \in CloudIdx |-> (5 * i + 3) % RandomSteps]}

\* the draws a respawn sweep may see (per orb: x, y, vx, vy)
RespawnTapes ==
    {[i \in OrbIdx |-> <<(3 * i + 2) % RandomSteps, (5 * i + 1) % RandomSteps, 19, 0>>],
     [i \in OrbIdx |-> <<8, 9, 10, 10>>]}

\* time from one animation frame to the next, in ms
FrameGaps == {16, 8000}

\* performance.now() inside a frame callback, less the frame's timestamp
CallbackLag == {2}

\* the same, for two runs of one frame that are compared with each other
WallClockLags == {2, 1000}

\* performance.now() in a key handler, less the timestamp of the last frame
SinceFrame == {4, 20}

\* ------------------------------------------------------------------------
\* State
\* ------------------------------------------------------------------------
VARIABLES
    mounted,         \* the component is mounted (its effects are live)
    canvasOk,        \* canvasRef.current is set and getContext("2d") gives a
                     \* context (lines 172-176)
    activeHorseman,  \* React state of line 63
    effectIndex,     \* the activeHorseman of the latest run of the loop
                     \* effect (its dependency, line 209)
    pressedKeys,     \* pressedKeys.current: the keys whose entry is true
    horsemen,        \* horsemenRef.current
    orbs,            \* orbsRef.current
    clouds,          \* cloudsRef.current
    elapsed,         \* React state of line 64
    frameTime,       \* timestamp of the latest animation frame
    rafQueue,        \* requested, not yet run or cancelled frame callbacks,
                     \* each with the closure of the effect run that owns it
    rafRef,          \* rafRef.current, 0 for undefined
    nextHandle,      \* the next handle requestAnimationFrame returns
    ticks,           \* number of frame callbacks run so far
    keyEvents,       \* number of key events handled so far
    sinceSweep,      \* history: delta accumulated since the last sweep
    reachedRight,    \* history: per horseman, the number of the first tick
                     \* that left it at the right bound (0: none so far)
    last             \* history: what the latest step did (for a tick: the
                     \* inputs and intermediate values of the frame), and
                     \* the latest switch of horseman no frame has run since

vars == <<mounted, canvasOk, activeHorseman, effectIndex, pressedKeys, horsemen, orbs,
          clouds, elapsed, frameTime,
          rafQueue, rafRef, nextHandle, ticks, keyEvents, sinceSweep, reachedRight, last>>

\* ------------------------------------------------------------------------
\* World creation (lines 101-142) and first run of the loop effect
\* ------------------------------------------------------------------------
InitHorseman(index, d) ==
    [x |-> CANVAS_WIDTH \div 2 + (2 * index - 3) * 60 * PosScale,
     y |-> CANVAS_HEIGHT \div 2 + (IF index % 2 = 0 THEN -60 ELSE 60) * PosScale,
     vx |-> randomRange(d[1], -FracScale, FracScale),
     vy |-> randomRange(d[2], -FracScale, FracScale),
     tilt |-> 0,
     targetTilt |-> 0,
     score |-> 0]

InitOrb(d) ==
    [x |-> randomRange(d[1], 80 * PosScale, CANVAS_WIDTH - 80 * PosScale),
     y |-> randomRange(d[2], 80 * PosScale, CANVAS_HEIGHT - 80 * PosScale),
     vx |-> randomRange(d[3], -((4 * FracScale) \div 10), (4 * FracScale) \div 10),
     vy |-> randomRange(d[4], -((3 * FracScale) \div 10), (3 * FracScale) \div 10),
     pulse |-> randomRange(d[5], (5 * FracScale) \div 10, FracScale),
     pulseDir |-> IF 2 * d[6] > RandomSteps THEN 1 ELSE -1]

InitCloud(d) ==
    [x |-> randomRange(d[1], 0, CANVAS_WIDTH),
     y |-> randomRange(d[2], 0, CANVAS_HEIGHT),
     size |-> randomRange(d[3], 120 * PosScale, 240 * PosScale),
     speed |-> randomRange(d[4], (2 * FracScale) \div 10, (6 * FracScale) \div 10),
     opacity |-> randomRange(d[5], (5 * FracScale) \div 100, (14 * FracScale) \div 100)]

\* the closure of one run of the loop effect (lines 178-179 and the
\* activeHorseman its step captured), carried by its pending callback
Callback(id, lastTime, orbTimer, active) ==
    [id |-> id, lastTime |-> lastTime, orbTimer |-> orbTimer, activeHorseman |-> active]

\* history record of a step that ran no physics
NoTick(hs, os) ==
    [delta |-> 0, threw |-> FALSE, sweep |-> FALSE, before |-> hs, moved |-> os,
     picked |-> os, credits |-> [i \in OrbIdx |-> 0], orbsBefore |-> os,
     active |-> 0, keys |-> {}, perfNow |-> 0, due |-> 0, select |-> << >>,
     log |-> << >>]

\* CanvasReady without the early returns of lines 173 and 176
CanvasReady_Always == TRUE

\* lines 172-176: the loop effect goes on only with a canvas and a context
CanvasReady == canvasOk

Init ==
    /\ mounted = TRUE
    /\ canvasOk \in BOOLEAN
    /\ activeHorseman = 0
    /\ effectIndex = 0
    /\ pressedKeys = {}
    /\ \E tape \in InitTapes :
          /\ horsemen = [i \in HorseIdx |-> InitHorseman(i, tape.horse[i])]
          /\ orbs = [i \in OrbIdx |-> InitOrb(tape.orb[i])]
    /\ clouds = [i \in CloudIdx |-> InitCloud(CloudTape[i])]
    /\ elapsed = 0
    /\ frameTime = 0
    /\ rafQueue = IF CanvasReady THEN {Callback(1, 4, 0, 0)} ELSE {}
    /\ rafRef = IF CanvasReady THEN 1 ELSE 0
    /\ nextHandle = IF CanvasReady THEN 2 ELSE 1
    /\ ticks = 0
    /\ keyEvents = 0
    /\ sinceSweep = 0
    /\ reachedRight = [i \in HorseIdx |-> 0]
    /\ last = [kind |-> "init", tick |-> NoTick(horsemen, orbs), select |-> << >>]

\* ------------------------------------------------------------------------
\* The frame callback: step (lines 181-199)
\* ------------------------------------------------------------------------
\* One frame (lines 182-196) for the pending callback cb run at the given
\* frame timestamp, with performance.now() read as perfNow: the calls of
\* step applied in order to the world.  draws and wraps are the values
\* Math.random() yields in the sweep and for the clouds that wrap.
FrameRun(cb, timestamp, perfNow, draws, wraps) ==
    RunCalls(StepCalls, 1,
             [horsemen |-> horsemen, orbs |-> orbs, clouds |-> clouds,
              orbTimer |-> cb.orbTimer + (timestamp - cb.lastTime),
              threw |-> FALSE, sweep |-> FALSE, moved |-> orbs, picked |-> orbs,
              credits |-> [i \in OrbIdx |-> 0], log |-> << >>],
             [delta |-> timestamp - cb.lastTime, keys |-> pressedKeys,
              active |-> cb.activeHorseman, perfNow |-> perfNow,
              draws |-> draws, wraps |-> wraps])

\* The state change of step: f is FrameRun of this frame.  A frame that
\* throws leaves step before the next requestAnimationFrame (line 198).
StepFrame(cb, timestamp, perfNow, f) ==
    LET delta == timestamp - cb.lastTime
    IN /\ frameTime' = timestamp
       /\ elapsed' = elapsed + delta
       /\ ticks' = ticks + 1
       /\ horsemen' = f.horsemen
       /\ orbs' = f.orbs
       /\ clouds' = f.clouds
       /\ IF f.threw
          THEN /\ rafQueue' = rafQueue \ {cb}
               /\ rafRef' = rafRef
               /\ nextHandle' = nextHandle
          ELSE /\ rafQueue' = (rafQueue \ {cb}) \cup
                     {Callback(nextHandle, timestamp, f.orbTimer, cb.activeHorseman)}
               /\ rafRef' = nextHandle
               /\ nextHandle' = nextHandle + 1
       /\ sinceSweep' = IF f.sweep THEN 0 ELSE sinceSweep + delta
       /\ reachedRight' = [i \in HorseIdx |->
                            IF reachedRight[i] = 0 /\ f.horsemen[i].x = MAX_X
                            THEN ticks + 1 ELSE reachedRight[i]]
       /\ last' = [kind |-> "tick",
                   tick |-> [delta |-> delta, threw |-> f.threw, sweep |-> f.sweep,
                             before |-> horsemen, moved |-> f.moved,
                             picked |-> f.picked, credits |-> f.credits,
                             orbsBefore |-> orbs,
                             active |-> cb.activeHorseman,
                             keys |-> pressedKeys,
                             perfNow |-> perfNow,
                             due |-> sinceSweep + delta,
                             select |-> last.select,
                             log |-> f.log],
                   select |-> << >>]
       /\ UNCHANGED <<mounted, canvasOk, activeHorseman, effectIndex, pressedKeys,
                       keyEvents>>

\* whether the frame of cb run at the given timestamp gets to the sweep
SweepRuns(cb, timestamp) ==
    /\ ~updateHorsemenThrows(cb.activeHorseman)
    /\ RespawnDue(cb.orbTimer + (timestamp - cb.lastTime))

\* the browser runs a pending frame callback, gap ms after the last frame
RunFrame(gaps) ==
    \E cb \in rafQueue, gap \in gaps, lag \in CallbackLag, wraps \in CloudWrapTapes :
          \E draws \in (IF SweepRuns(cb, frameTime + gap)
                        THEN RespawnTapes
                        ELSE {[i \in OrbIdx |-> <<0, 0, 0, 0>>]}) :
             \E f \in {FrameRun(cb, frameTime + gap, frameTime + gap + lag, draws, wraps)} :
                StepFrame(cb, frameTime + gap, frameTime + gap + lag, f)

Tick == ticks < MaxTicks /\ RunFrame(FrameGaps)

\* ------------------------------------------------------------------------
\* The loop effect (lines 171-209): cleanup and body
\* ------------------------------------------------------------------------
\* LoopCleanup without the cancelAnimationFrame of line 205
LoopCleanup_NoCancel(queue) == queue

\* LoopCleanup that cancels the frame the first run of the effect requested
\* (a handle kept in the closure) instead of rafRef.current
LoopCleanup_FirstHandle(queue) == {c \in queue : c.id # 1}

\* lines 203-207: cancelAnimationFrame(rafRef.current) when it is set
LoopCleanup(queue) ==
    IF rafRef # 0 THEN {c \in queue : c.id # rafRef} ELSE queue

\* LoopStart whose step keeps using the index that was controlled before
\* (a step closure that is not renewed with the state)
LoopStart_StaleIndex(queue, idx, perfNow) ==
    IF CanvasReady
    THEN queue \cup {Callback(nextHandle, perfNow, 0, activeHorseman)}
    ELSE queue

\* lines 178-201 for a run of the effect that captures activeHorseman = idx
\* at wall-clock time perfNow: a fresh closure and a first requested frame,
\* or nothing without a canvas
LoopStart(queue, idx, perfNow) ==
    IF CanvasReady
    THEN queue \cup {Callback(nextHandle, perfNow, 0, idx)}
    ELSE queue

\* ------------------------------------------------------------------------
\* Key handlers (lines 145-160)
\* ------------------------------------------------------------------------
\* React re-renders when the state setter gets a different value (same value:
\* no render, no effect).  The loop effect depends on [activeHorseman]
\* (line 209), so its cleanup and its body run again.  A keydown is a discrete
\* event: React renders its update and runs the effects of that render in
\* the same task, so no frame callback runs between the handler and the
\* restart of the loop, and the handler with the restart is one step here.
handleKeyDown(key, since) ==
    /\ mounted
    /\ keyEvents < MaxKeyEvents
    /\ pressedKeys' = pressedKeys \cup {toLowerCase(key)}
    /\ keyEvents' = keyEvents + 1
    /\ IF IsSelectKey(key) /\ SelectIndex(key) # activeHorseman
       THEN /\ activeHorseman' = SelectIndex(key)
            /\ effectIndex' = SelectIndex(key)
            /\ rafQueue' = LoopStart(LoopCleanup(rafQueue), SelectIndex(key),
                                     frameTime + since)
            /\ rafRef' = IF CanvasReady THEN nextHandle ELSE rafRef
            /\ nextHandle' = IF CanvasReady THEN nextHandle + 1 ELSE nextHandle
       ELSE UNCHANGED <<activeHorseman, effectIndex, rafQueue, rafRef, nextHandle>>
    /\ last' = [kind |-> "keydown", tick |-> NoTick(horsemen, orbs),
                select |-> IF IsSelectKey(key) /\ SelectIndex(key) # activeHorseman
                           THEN <<activeHorseman, SelectIndex(key)>>
                           ELSE last.select]
    /\ UNCHANGED <<mounted, canvasOk, horsemen, orbs, clouds, elapsed, frameTime, ticks, sinceSweep,
                   reachedRight>>

KeyDown == \E key \in KeyInputs, since \in SinceFrame : handleKeyDown(key, since)

handleKeyUp(key) ==
    /\ mounted
    /\ keyEvents < MaxKeyEvents
    /\ pressedKeys' = pressedKeys \ {toLowerCase(key)}
    /\ keyEvents' = keyEvents + 1
    /\ last' = [kind |-> "keyup", tick |-> NoTick(horsemen, orbs), select |-> last.select]
    /\ UNCHANGED <<mounted, canvasOk, activeHorseman, effectIndex, horsemen, orbs, clouds,
                   elapsed, frameTime,
                   rafQueue, rafRef, nextHandle, ticks, sinceSweep, reachedRight>>

KeyUp == \E key \in KeyInputs : handleKeyUp(key)

\* ------------------------------------------------------------------------
\* Teardown: the cleanups of the effects (lines 165-168, 203-207)
\* ------------------------------------------------------------------------
Unmount ==
    /\ mounted
    /\ mounted' = FALSE
    /\ rafQueue' = LoopCleanup(rafQueue)
    /\ last' = [kind |-> "unmount", tick |-> NoTick(horsemen, orbs), select |-> last.select]
    /\ UNCHANGED <<canvasOk, activeHorseman, effectIndex, pressedKeys, horsemen, orbs,
                   clouds, elapsed, frameTime,
                   rafRef, nextHandle, ticks, keyEvents, sinceSweep, reachedRight>>

Next == Tick \/ KeyDown \/ KeyUp \/ Unmount

Spec == Init /\ [][Next]_vars

\* ------------------------------------------------------------------------
\* A long run at the display rate: keys go down before the first frame and
\* stay held, then frames follow one another FRAME_MS apart.
\* ------------------------------------------------------------------------
HeldKeyInputs == {"ArrowRight", "ArrowUp", "Shift"}

KeyDownAtStart ==
    /\ ticks = 0
    /\ \E key \in HeldKeyInputs, since \in SinceFrame : handleKeyDown(key, since)

TickSteady == ticks < LongTicks /\ RunFrame({FRAME_MS})

\* a switch of the controlled horseman in the middle of the run
SwitchKeyInputs == {"3"}

KeyDownMidRun ==
    /\ ticks = SwitchTick
    /\ \E key \in SwitchKeyInputs, since \in SinceFrame : handleKeyDown(key, since)

NextLong == TickSteady \/ KeyDownAtStart \/ KeyDownMidRun

SpecLong == Init /\ [][NextLong]_vars

\* ------------------------------------------------------------------------
\* Deferred effects: the same program when React runs the effects of the
\* render a keydown caused in a later task, so that a frame callback, a
\* further key event or the unmount may come between the handler and the
\* restart of the loop.
\* ------------------------------------------------------------------------
\* lines 145-156: the handler alone
handleKeyDownAlone(key) ==
    /\ mounted
    /\ keyEvents < MaxKeyEvents
    /\ pressedKeys' = pressedKeys \cup {toLowerCase(key)}
    /\ keyEvents' = keyEvents + 1
    /\ activeHorseman' = IF IsSelectKey(key) THEN SelectIndex(key) ELSE activeHorseman
    /\ last' = [kind |-> "keydown", tick |-> NoTick(horsemen, orbs),
                select |-> IF IsSelectKey(key) /\ SelectIndex(key) # activeHorseman
                           THEN <<activeHorseman, SelectIndex(key)>>
                           ELSE last.select]
    /\ UNCHANGED <<mounted, canvasOk, effectIndex, horsemen, orbs, clouds, elapsed,
                   frameTime, rafQueue, rafRef, nextHandle, ticks, sinceSweep,
                   reachedRight>>

\* the keys pressed in these runs: two that select
DeferredKeyInputs == {"2", "3"}

KeyDownAlone == \E key \in DeferredKeyInputs : handleKeyDownAlone(key)

\* lines 171-209: the render sees an activeHorseman other than the one of
\* the latest run of the loop effect; the cleanup of that run and the body
\* run, at wall-clock time frameTime + since
RerunLoopEffect(since) ==
    /\ mounted
    /\ activeHorseman # effectIndex
    /\ effectIndex' = activeHorseman
    /\ rafQueue' = LoopStart(LoopCleanup(rafQueue), activeHorseman, frameTime + since)
    /\ rafRef' = IF CanvasReady THEN nextHandle ELSE rafRef
    /\ nextHandle' = IF CanvasReady THEN nextHandle + 1 ELSE nextHandle
    /\ last' = [kind |-> "effect", tick |-> last.tick, select |-> last.select]
    /\ UNCHANGED <<mounted, canvasOk, activeHorseman, pressedKeys, horsemen, orbs, clouds,
                   elapsed, frameTime, ticks, keyEvents, sinceSweep, reachedRight>>

LoopEffect == \E since \in SinceFrame : RerunLoopEffect(since)

NextDeferred == Tick \/ KeyDownAlone \/ KeyUp \/ LoopEffect \/ Unmount

SpecDeferred == Init /\ [][NextDeferred]_vars

\* ------------------------------------------------------------------------
\* The steering scenario: the controlled horseman starts at (500, 280) at
\* rest, the right arrow is held, and every frame has a delta of FRAME_MS.
\* The other horsemen, the orbs and the clouds are as seeded.
\* ------------------------------------------------------------------------
InitScenario ==
    /\ mounted = TRUE
    /\ canvasOk = TRUE
    /\ activeHorseman \in HorseIdx
    /\ effectIndex = activeHorseman
    /\ pressedKeys = {"arrowright"}
    /\ \E tape \in InitTapes :
          /\ horsemen = [i \in HorseIdx |->
                           IF i = activeHorseman
                           THEN [InitHorseman(i, tape.horse[i]) EXCEPT
                                   !.x = 500 * PosScale, !.y = 280 * PosScale,
                                   !.vx = 0, !.vy = 0]
                           ELSE InitHorseman(i, tape.horse[i])]
          /\ orbs = [i \in OrbIdx |-> InitOrb(tape.orb[i])]
    /\ clouds = [i \in CloudIdx |-> InitCloud(CloudTape[i])]
    /\ elapsed = 0
    /\ frameTime = 0
    /\ rafQueue = {Callback(1, 0, 0, activeHorseman)}
    /\ rafRef = 1
    /\ nextHandle = 2
    /\ ticks = 0
    /\ keyEvents = 0
    /\ sinceSweep = 0
    /\ reachedRight = [i \in HorseIdx |-> 0]
    /\ last = [kind |-> "init", tick |-> NoTick(horsemen, orbs), select |-> << >>]

TickScenario == ticks < ScenarioTicks /\ RunFrame({FRAME_MS})

SpecScenario == InitScenario /\ [][TickScenario]_vars

\* ------------------------------------------------------------------------
\* Properties
\* ------------------------------------------------------------------------
TickRan == last.kind = "tick" /\ ~last.tick.threw

\* C1: in every reachable state, from the seeded positions on and after
\* every tick whatever its delta, held keys and control index, each of the
\* four horsemen has position.x in [40, 920] and position.y in [50, 460].
C1_PositionInBounds ==
    \A i \in HorseIdx :
       /\ horsemen[i].x >= 40 * PosScale /\ horsemen[i].x <= 920 * PosScale
       /\ horsemen[i].y >= 50 * PosScale /\ horsemen[i].y <= 460 * PosScale

\* a tick with a very large delta threw a horseman against an edge, and a
\* tick with a negative delta has run too
C1_Witness ==
    /\ TickRan
    /\ last.tick.delta > 1000
    /\ \E i \in HorseIdx :
          /\ horsemen[i].x \in {40 * PosScale, 920 * PosScale}
          /\ last.tick.before[i].x \notin {40 * PosScale, 920 * PosScale}

C1_WitnessNegativeDelta == TickRan /\ last.tick.delta < 0

RECURSIVE SumTo(_, _)
\* f[0] + ... + f[n]
SumTo(f, n) == IF n < 0 THEN 0 ELSE f[n] + SumTo(f, n - 1)

\* score gained by horseman i in the latest tick
ScoreGain(i) == horsemen[i].score - last.tick.before[i].score

\* orbs that were not collected after the orb motion of the latest tick and
\* were collected after its pickup loop
NewlyCollected ==
    {o \in OrbIdx : ~IsCollected(last.tick.moved[o]) /\ IsCollected(last.tick.picked[o])}

\* horsemen within the pickup radius of orb o as it was before the pickup
\* loop of the latest tick (horsemen do not move during that loop)
InRangeOf(o) == {i \in HorseIdx : InPickupRange(horsemen[i], last.tick.moved[o])}

\* C2: in a tick the scores gained by all horsemen add up to the number of
\* orbs that went from uncollected to collected in it; no orb gives more
\* than one point, also with several horsemen within 42 units of it.
C2_OneCreditPerOrb ==
    TickRan =>
       /\ SumTo([i \in HorseIdx |-> ScoreGain(i)], NumHorsemen - 1)
             = Cardinality(NewlyCollected)
       /\ \A o \in OrbIdx : last.tick.credits[o] <= 1
       /\ \A i \in HorseIdx : ScoreGain(i) >= 0

\* an orb with two horsemen in range was collected
C2_Witness ==
    /\ TickRan
    /\ \E o \in NewlyCollected : Cardinality(InRangeOf(o)) >= 2

\* position at the sentinel, velocity zero
InCollectedState(orb) ==
    orb.x = SENTINEL /\ orb.y = SENTINEL /\ orb.vx = 0 /\ orb.vy = 0

\* C3: an orb that gave a point is in the collected state; an orb in the
\* collected state before a tick is still in it after the orb motion and
\* edge reflection of that tick, gives no point in the tick, and is still
\* in it after the tick unless the tick ran the respawn sweep.
C3_CollectedStays ==
    TickRan =>
       \A o \in OrbIdx :
          /\ last.tick.credits[o] > 0 => InCollectedState(last.tick.picked[o])
          /\ InCollectedState(last.tick.orbsBefore[o]) =>
                /\ InCollectedState(last.tick.moved[o])
                /\ InCollectedState(last.tick.picked[o])
                /\ last.tick.credits[o] = 0
                /\ ~last.tick.sweep => InCollectedState(orbs[o])

\* a collected orb went through a long tick without sweep while some
\* other orb that was moving got collected in that tick
C3_Witness ==
    /\ TickRan
    /\ ~last.tick.sweep
    /\ last.tick.delta > 1000
    /\ \E o \in OrbIdx : InCollectedState(last.tick.orbsBefore[o]) /\ InCollectedState(orbs[o])

C3_WitnessMovingOrb ==
    /\ TickRan
    /\ \E o \in NewlyCollected : last.tick.moved[o].vx # 0 \/ last.tick.moved[o].vy # 0

\* the respawn timer of the running loop: the orbTimer of the closure
\* whose frame callback is pending
PendingTimers == {c.orbTimer : c \in rafQueue}

\* C4: the sweep runs in exactly the ticks in which the delta accumulated
\* since the previous sweep exceeds 12000 ms; such a tick leaves no orb
\* collected and the timer at 0; any other tick leaves collected every orb
\* that was collected after its pickup loop.
C4_SweepExactlyWhenDue ==
    TickRan =>
       /\ last.tick.sweep <=> (last.tick.due > 12000)
       /\ last.tick.sweep =>
             /\ \A o \in OrbIdx : ~IsCollected(orbs[o])
             /\ PendingTimers = {0}
       /\ ~last.tick.sweep =>
             \A o \in OrbIdx : IsCollected(last.tick.picked[o]) => IsCollected(orbs[o])

\* C5 (as a bound on when the respawn happens): at the end of a tick by
\* which more than 12000 ms of delta have accumulated since the last sweep,
\* no orb is collected, whatever keys were pressed in between.
C5_RespawnedWhenDue ==
    (TickRan /\ last.tick.due > 12000) => \A o \in OrbIdx : ~IsCollected(orbs[o])

\* the timing state of the running loop: previous-frame timestamp and
\* respawn timer of the closure whose frame callback is pending
LoopTiming == {<<c.lastTime, c.orbTimer>> : c \in rafQueue}

\* C6: a step that changes the controlled-horseman index leaves a frame
\* callback pending and leaves the loop's timing state as it was.
C6_SwitchKeepsTiming ==
    [][activeHorseman' # activeHorseman =>
          /\ rafQueue' # {}
          /\ LoopTiming' = LoopTiming]_vars

\* C7: once the component is unmounted no frame callback is pending and no
\* tick has run since the unmount (every step records itself in last).
C7_NoTickAfterStop ==
    ~mounted => (rafQueue = {} /\ last.kind = "unmount")

\* unmounted after ticks and a switch of horseman, with ticks still allowed
\* by the exploration bound
C7_Witness ==
    /\ ~mounted
    /\ ticks >= 1
    /\ ticks < MaxTicks
    /\ activeHorseman \in HorseIdx \ {0}
    /\ rafRef # 0

\* C8: the control index is an integer in 0..3 after any key events.
C8_IndexInRange == activeHorseman \in HorseIdx

\* the latest tick is the first one after a switch from horseman
\* select[1] to horseman select[2], made by a press of "1".."4"
FirstTickAfterSelect ==
    /\ last.kind = "tick"
    /\ last.tick.select # << >>
    /\ last.tick.select[2] \in HorseIdx

\* velocity component after clamp to the maximal speed and friction
Damped(v) == TruncDiv(clamp(v, -HORSEMAN_MAX_SPEED, HORSEMAN_MAX_SPEED) * 985, 1000)

\* the horseman stays strictly inside the x range when it moves with
\* velocity v for the tick (so that no bounce changes its velocity.x)
StaysInsideX(h, v, delta) ==
    LET x == h.x + Displacement(clamp(v, -HORSEMAN_MAX_SPEED, HORSEMAN_MAX_SPEED), delta)
    IN x >= 40 * PosScale /\ x <= 920 * PosScale

\* C9: the first tick after a press of digit d that changed the controlled
\* horseman treats horseman d-1 as controlled: its velocity.x changes by the
\* held direction keys only (0.24 per tick, 0.336 with boost) and its
\* targetTilt follows the key rule; the horseman controlled before gets the
\* flocking pull and the wander term, its targetTilt comes from the wander,
\* and the keys do not accelerate it.
C9_SelectActsOnNextTick ==
    FirstTickAfterSelect =>
       LET t == last.tick
           new == t.select[2]
           prev == t.select[1]
           hor == (IF "arrowright" \in t.keys THEN 1 ELSE 0)
                  - (IF "arrowleft" \in t.keys THEN 1 ELSE 0)
           ver == (IF "arrowdown" \in t.keys THEN 1 ELSE 0)
                  - (IF "arrowup" \in t.keys THEN 1 ELSE 0)
           acc == IF " " \in t.keys \/ "shift" \in t.keys
                  THEN (336 * FracScale) \div 1000 ELSE (240 * FracScale) \div 1000
           keyed == t.before[new].vx + hor * acc
           wander == wanderOf(t.perfNow, prev)
           lead == IF new < prev THEN horsemen[new] ELSE t.before[new]
           pulled == t.before[prev].vx
                     + TruncDiv((lead.x - t.before[prev].x) * 6 * FracScale, 10000 * PosScale)
                     + TruncDiv(wander * 3, 100)
       IN /\ ~t.threw
          /\ t.active = new
          /\ StaysInsideX(t.before[new], keyed, t.delta) => horsemen[new].vx = Damped(keyed)
          /\ horsemen[new].targetTilt =
                IF hor # 0 \/ ver # 0
                THEN clamp(t.before[new].targetTilt + hor * ((6 * FracScale) \div 100),
                           -TILT_MAX, TILT_MAX)
                ELSE TruncDiv(t.before[new].targetTilt * 88, 100)
          /\ prev \in HorseIdx =>
                /\ horsemen[prev].targetTilt = clamp(TruncDiv(wander * 4, 10), -TILT_MAX, TILT_MAX)
                /\ StaysInsideX(t.before[prev], pulled, t.delta) =>
                      horsemen[prev].vx = Damped(pulled)

\* horseman 2 was selected with "3" while horseman 0 was controlled, the
\* right arrow is held, and the next tick has run without a bounce of
\* either horseman
C9_Witness ==
    /\ FirstTickAfterSelect
    /\ last.tick.select = <<0, 2>>
    /\ "arrowright" \in last.tick.keys
    /\ horsemen[2].x \notin {40 * PosScale, 920 * PosScale}
    /\ horsemen[0].x \notin {40 * PosScale, 920 * PosScale}
    /\ horsemen[2].vx # last.tick.before[2].vx

\* C10: every horseman's velocity components are within 7.4 in magnitude in
\* every state, and the displacement a tick applies to a position is at
\* most what a velocity of 7.4 gives for the tick's delta.
C10_SpeedBounded ==
    /\ \A i \in HorseIdx :
          /\ Abs(horsemen[i].vx) <= (74 * FracScale) \div 10
          /\ Abs(horsemen[i].vy) <= (74 * FracScale) \div 10
    /\ TickRan =>
          \A i \in HorseIdx :
             /\ Abs(horsemen[i].x - last.tick.before[i].x)
                   <= Abs(Displacement((74 * FracScale) \div 10, last.tick.delta))
             /\ Abs(horsemen[i].y - last.tick.before[i].y)
                   <= Abs(Displacement((74 * FracScale) \div 10, last.tick.delta))

\* the held keys pushed the controlled horseman's velocity.x beyond 7.4
\* before the clamp of the latest tick
C10_Witness ==
    /\ TickRan
    /\ last.tick.active \in HorseIdx
    /\ last.tick.before[last.tick.active].vx
          + horizontalOf(last.tick.keys) * accelerationOf(last.tick.keys)
          > (74 * FracScale) \div 10


\* ------------------------------------------------------------------------
\* Order of the calls within a frame
\* ------------------------------------------------------------------------
Log == last.tick.log

LogIdx == 1 .. Len(Log)

WorldLayers == {"horsemen", "orbs", "hud"}

HorsemenAfter(cb, gap, lag) ==
    updateHorsemen(horsemen, frameTime + gap - cb.lastTime, pressedKeys,
                   cb.activeHorseman, frameTime + gap + lag)

\* the frames that can run next
NextFrames ==
    {fr \in rafQueue \X FrameGaps : ~updateHorsemenThrows(fr[1].activeHorseman)}

\* C12 (as stated): two runs of the next tick from the same world state
\* with the same delta, held keys and control index give the same horsemen
\* (positions, velocities, tilts) whatever performance.now() reads.
C12_PhysicsIgnoresClock ==
    \A fr \in NextFrames : \A l1, l2 \in WallClockLags :
       HorsemenAfter(fr[1], fr[2], l1) = HorsemenAfter(fr[1], fr[2], l2)

\* C12 (amended): two such runs give the same controlled horseman and the
\* same position.y and velocity.y of every horseman; only velocity.x,
\* position.x, targetTilt and tilt of the other horsemen depend on the
\* reading of performance.now() (the wander).
C12_ClockOnlyInWander ==
    \A fr \in NextFrames : \A l1, l2 \in WallClockLags :
       l1 < l2 =>
          \E a \in {HorsemenAfter(fr[1], fr[2], l1)},
             b \in {HorsemenAfter(fr[1], fr[2], l2)} :
                /\ a[fr[1].activeHorseman] = b[fr[1].activeHorseman]
                /\ \A i \in HorseIdx :
                      /\ a[i].y = b[i].y
                      /\ a[i].vy = b[i].vy
                      /\ a[i].score = b[i].score

\* after a switch and a tick, the next tick moves a horseman that is not
\* controlled differently under two readings of the clock
C12_Witness ==
    /\ TickRan
    /\ activeHorseman # 0
    /\ \E fr \in NextFrames : \E l1, l2 \in WallClockLags : \E i \in HorseIdx :
          /\ i # fr[1].activeHorseman
          /\ HorsemenAfter(fr[1], fr[2], l1)[i].vx # HorsemenAfter(fr[1], fr[2], l2)[i].vx
          /\ HorsemenAfter(fr[1], fr[2], l1)[i].x # HorsemenAfter(fr[1], fr[2], l2)[i].x

\* ------------------------------------------------------------------------
\* Scores
\* ------------------------------------------------------------------------
\* C13: every horseman's score is a non-negative integer, and no step (tick,
\* key event, switch of the controlled horseman with its restart of the
\* loop effect, respawn sweep, unmount) lowers or resets it.
C13_ScoreNeverDecreases ==
    [][\A i \in HorseIdx :
          /\ horsemen[i].score \in Nat
          /\ horsemen'[i].score \in Nat
          /\ horsemen'[i].score >= horsemen[i].score]_vars

\* a horseman has points, and a switch, a sweep and a tick that gives it no
\* point have happened since it got the first
C13_Witness ==
    /\ TickRan
    /\ last.tick.sweep
    /\ activeHorseman # 0
    /\ \E i \in HorseIdx :
          /\ last.tick.before[i].score >= 1
          /\ horsemen[i].score = last.tick.before[i].score

\* ------------------------------------------------------------------------
\* Start without a drawing surface
\* ------------------------------------------------------------------------
\* the world as the init effect created it
WorldAsCreated ==
    /\ \E tape \in InitTapes :
          /\ horsemen = [i \in HorseIdx |-> InitHorseman(i, tape.horse[i])]
          /\ orbs = [i \in OrbIdx |-> InitOrb(tape.orb[i])]
    /\ clouds = [i \in CloudIdx |-> InitCloud(CloudTape[i])]
    /\ elapsed = 0

\* C14: if the canvas or its 2D context is unavailable when the loop effect
\* runs, no frame callback is ever scheduled, no tick ever runs, and the
\* world stays as it was created, whatever key events (switches included)
\* follow.
C14_NoStartWithoutCanvas ==
    ~canvasOk =>
       /\ rafQueue = {}
       /\ rafRef = 0
       /\ ticks = 0
       /\ WorldAsCreated

\* without a canvas, a switch has run the loop effect a second time
C14_Witness ==
    /\ ~canvasOk
    /\ activeHorseman = 2
    /\ keyEvents = MaxKeyEvents
    /\ "arrowright" \in pressedKeys

\* ------------------------------------------------------------------------
\* The steering scenario
\* ------------------------------------------------------------------------
\* the controlled horseman before and after the latest tick
Controlled == horsemen[last.tick.active]

ControlledBefore == last.tick.before[last.tick.active]

\* the controlled horseman was at the right bound before the latest tick
ReachedBefore ==
    /\ reachedRight[last.tick.active] # 0
    /\ reachedRight[last.tick.active] < ticks

\* C15 (as stated): in the scenario, velocity.x after each tick is not below
\* the one before and at most 7.4 as long as the controlled horseman has not
\* reached the right bound, and position.x strictly increases on every tick
\* that starts with position.x below 920.
C15_SteadyApproach ==
    TickRan =>
       /\ reachedRight[last.tick.active] = 0 =>
             /\ Controlled.vx >= ControlledBefore.vx
             /\ Controlled.vx <= HORSEMAN_MAX_SPEED
       /\ ControlledBefore.x < MAX_X => Controlled.x > ControlledBefore.x

\* C15 (amended): the same, with position.x strictly increasing on every
\* tick until the controlled horseman has reached the right bound (920);
\* after the bounce it moves left for a while.
C15_ApproachUntilBound ==
    TickRan =>
       /\ reachedRight[last.tick.active] = 0 =>
             /\ Controlled.vx >= ControlledBefore.vx
             /\ Controlled.vx <= HORSEMAN_MAX_SPEED
       /\ ~ReachedBefore => Controlled.x > ControlledBefore.x

\* the tick that takes the controlled horseman to the right bound, at the
\* speed the clamp and the friction settle on
C15_Witness ==
    /\ TickRan
    /\ reachedRight[last.tick.active] = ticks
    /\ Controlled.x = MAX_X
    /\ ControlledBefore.x < MAX_X
    /\ ControlledBefore.vx = TruncDiv(HORSEMAN_MAX_SPEED * HORSEMAN_FRICTION, FracScale)

\* ------------------------------------------------------------------------
\* Tilt
\* ------------------------------------------------------------------------
\* C16: in every reachable state, after any ticks and switches, targetTilt
\* and tilt of every horseman, controlled or not, lie in [-0.45, 0.45].
C16_TiltBounded ==
    \A i \in HorseIdx :
       /\ horsemen[i].targetTilt >= -TILT_MAX /\ horsemen[i].targetTilt <= TILT_MAX
       /\ horsemen[i].tilt >= -TILT_MAX /\ horsemen[i].tilt <= TILT_MAX

\* horseman 0 was steered right until its targetTilt sat at the clamp, then
\* horseman 2 took over and got there too, while horseman 0 follows the
\* wander
C16_Witness ==
    /\ TickRan
    /\ ticks > SwitchTick
    /\ activeHorseman = 2
    /\ horsemen[2].targetTilt = TILT_MAX
    /\ horsemen[0].targetTilt # TILT_MAX
    /\ \E i \in HorseIdx : i # 2 /\ horsemen[i].targetTilt < 0

\* ------------------------------------------------------------------------
\* Layering
\* ------------------------------------------------------------------------
IsDraw(e) == e.op = "draw"

\* the drawing operations of the latest tick, in the order they ran
Drawn == SelectSeq(Log, IsDraw)

\* back to front
LayerRank(what) ==
    CASE what = "sky" -> 1
      [] what = "bands" -> 2
      [] what = "cloud" -> 3
      [] what = "horsemen" -> 4
      [] what = "orbs" -> 5
      [] what = "hud" -> 6

LayersOf(seq) == [k \in 1 .. Len(seq) |-> seq[k].what]

\* C17: in every tick the drawing operations run in the order sky, light
\* bands, clouds, horsemen, orbs, HUD (all of them in a tick that runs to
\* its end), and no orb in the collected state is drawn.
C17_DrawOrder ==
    last.kind = "tick" =>
       /\ \A i, j \in 1 .. Len(Drawn) :
             i < j => LayerRank(Drawn[i].what) <= LayerRank(Drawn[j].what)
       /\ ~last.tick.threw =>
             LayersOf(Drawn) = <<"sky", "bands">> \o [k \in 1 .. NumClouds |-> "cloud"]
                                  \o <<"horsemen", "orbs", "hud">>
       /\ \A j \in 1 .. Len(Drawn) :
             Drawn[j].what = "orbs" =>
                /\ \A i \in DOMAIN Drawn[j].view : ~IsCollected(Drawn[j].view[i])
                /\ \A i \in OrbIdx : IsCollected(orbs[i]) => i \notin DOMAIN Drawn[j].view

\* a tick that drew some orbs and left out one a horseman collected in it
C17_Witness ==
    /\ TickRan
    /\ \E o \in OrbIdx : last.tick.credits[o] > 0 /\ IsCollected(orbs[o])
    /\ \E o \in OrbIdx : ~IsCollected(orbs[o])
    /\ Len(Drawn) = NumClouds + 5

\* ------------------------------------------------------------------------
\* Orbs at the edges
\* ------------------------------------------------------------------------
\* C18: after any tick, an uncollected orb left of 50 does not move left, one
\* right of 910 does not move right, one above 50 does not move up and one
\* below 510 does not move down: an orb outside an edge heads back.
C18_OrbHeadsBack ==
    TickRan =>
       \A o \in OrbIdx :
          ~IsCollected(orbs[o]) =>
             /\ orbs[o].x < ORB_MIN => orbs[o].vx >= 0
             /\ orbs[o].x > ORB_MAX_X => orbs[o].vx <= 0
             /\ orbs[o].y < ORB_MIN => orbs[o].vy >= 0
             /\ orbs[o].y > ORB_MAX_Y => orbs[o].vy <= 0

\* ------------------------------------------------------------------------
\* One chain of frames
\* ------------------------------------------------------------------------
\* C19: at every moment at most one frame callback is scheduled, and it is
\* the one rafRef.current names, across start, ticks, switches of the
\* controlled horseman (whether or not a tick runs between the key press and
\* the restart of the loop effect) and unmount.
C19_OneFrameScheduled ==
    /\ Cardinality(rafQueue) <= 1
    /\ \A c \in rafQueue : c.id = rafRef

\* the loop effect has just restarted after a tick that ran between the key
\* press and the restart, and a frame is scheduled
C19_Witness ==
    /\ last.kind = "effect"
    /\ last.tick.select # << >>
    /\ ~last.tick.threw
    /\ ticks >= 2
    /\ Cardinality(rafQueue) = 1
====
